---- MODULE Spec2Model ----
(***************************************************************************)
(* The trigger engine of wenwa_keys_mt: AutoBEManager (auto_be.py) and     *)
(* PartialTPManager (partial_tp.py).  One run of the model is one manager  *)
(* instance (mgr), its caller thread (the facade calls), the monitor       *)
(* threads it has spawned, the backing file, and the three external gates  *)
(* (position, market data, action).                                        *)
(*                                                                         *)
(* Python threads interleave between statements.  A step of the model is   *)
(* a stretch of code with one access to shared manager state at most:      *)
(* the rewrite of the file (_save_triggers) is two steps, the snapshot of  *)
(* the mapping (data = {...}) and the write (open/json.dump), because a    *)
(* thread switch between them is where another thread's save can land.     *)
(* remove_trigger, remove_all_for_position and clear_executed_triggers     *)
(* are two steps each: the read of the mapping and the write that follows. *)
(*                                                                         *)
(* Spec is one process with its monitor threads.  SpecStore is the store   *)
(* and its file over several processes: the manager is constructed from a  *)
(* file (_load_triggers), and the process can end at any point.            *)
(* SpecVolume is the action gate of PartialTPManager over the positions'   *)
(* volumes.  SpecRestart is the monitor thread over several processes,     *)
(* SpecLive and SpecStop are the monitor thread under fair scheduling, and *)
(* SpecClock is PartialTPManager at any reading of the clock.              *)
(***************************************************************************)
EXTENDS Integers, Sequences, FiniteSets, TLC

\* ---- bounds of the model ----
\* A run is bounded (the variable bound, set by Init) to MaxObjs trigger
\* objects alive at once and one monitor thread, or to one trigger object and
\* MaxThreads monitor threads alive at once, or to one object and one thread
\* with a disk that can fail a write and a count of the failed actions.
MaxObjs == 2
MaxThreads == 2
MaxPrice == 3     \* prices are 1..MaxPrice (in points)

\* ---- the domain ----
Tickets == {1, 2}
Prices == 1..MaxPrice
Percentages == {0, 50, 100}
CurrentPrices == {2}   \* price_current of a position when add_trigger asks for it
Oids == 1..MaxObjs
Threads == 1..MaxThreads
Stamps == 1..MaxObjs

\* Volumes are in hundredths of the symbol's volume step, so that a percentage
\* of a volume is a whole number; a position has up to MaxVolume steps.
MaxVolume == 20
volume_step == 100
volume_min == volume_step
volume_max == 100 * volume_step
VolumePercentages == {10, 30, 50, 75}

NoPrice == 0      \* None from get_current_bid / get_current_ask
NoStamp == 0      \* no timestamp in a key (AutoBEManager)
NoTime == "None"  \* executed_at = None
SomeTime == "now" \* executed_at = datetime.now().isoformat()
NoThread == 0     \* monitor_thread = None

\* The positions of the account: ticket 1 is a long position opened at price
\* 1, ticket 2 a short one opened at price 2.
pos_is_buy(t) == t = 1
pos_symbol(t) == IF t = 1 THEN "EURUSD" ELSE "GBPUSD"
pos_price_open(t) == IF t = 1 THEN 1 ELSE 2

VARIABLES
    bound,          \* [objs, threads, io_errors, count_fails]: the bounds of this run
    mgr,            \* "BE" (AutoBEManager) or "PTP" (PartialTPManager)
    sl_at_entry,    \* ticket -> the position's stop loss is at its entry price
    volume,         \* ticket -> the position's volume (0: the position is closed)
    objs,           \* the heap: oid -> trigger object (BETrigger / PTPTrigger)
    triggers,       \* self.triggers: sequence (insertion order) of [key, oid]
    file,           \* the backing file: sequence of [key, rec], as JSON has them
    monitoring,     \* self.monitoring
    monitor_thread, \* self.monitor_thread
    thr,            \* thread -> [pc, todo, cur, data, rk, gone]: the monitor threads
    cpc,            \* the caller thread: "idle", "remove", "remove_all", "clear",
                    \* "save", "joining"
    call,           \* the facade call in progress
    cdata,          \* the caller's data snapshot inside _save_triggers
    ret             \* the value a facade call returns in this step, or the exception a
                    \* monitor thread catches and logs in this step; NoCall in any other step

vars == <<bound, mgr, sl_at_entry, volume, objs, triggers, file,
          monitoring, monitor_thread, thr, cpc, call, cdata, ret>>


\* ---- trigger objects ----
\* A key of the mapping: the ticket for AutoBEManager, <<ticket, timestamp>>
\* (trigger_id) for PartialTPManager; written <<ticket, NoStamp>> for the former.
NoKey == <<0, 0>>

Blank ==
    [key |-> NoKey, ticket |-> 0, symbol |-> "", trigger_price |-> 0,
     close_percentage |-> 0, created_at |-> NoTime, is_buy |-> FALSE,
     executed |-> FALSE, executed_at |-> NoTime, volume_closed |-> 0,
     succ |-> 0, fail |-> 0]

\* BETrigger(ticket, symbol, trigger_price, created_at, is_buy), as add_trigger
\* makes it.  succ (ghost) counts the successful actions made for the object,
\* fail (ghost) the failed ones.
BETrigger(t, price) ==
    [key |-> <<t, NoStamp>>, ticket |-> t, symbol |-> pos_symbol(t),
     trigger_price |-> price, close_percentage |-> 0, created_at |-> SomeTime,
     is_buy |-> pos_is_buy(t), executed |-> FALSE, executed_at |-> NoTime,
     volume_closed |-> 0, succ |-> 0, fail |-> 0]

\* _generate_trigger_id: f"{ticket}_{timestamp}"
generate_trigger_id(t, now) == <<t, now>>

\* PTPTrigger(trigger_id, ticket, symbol, trigger_price, close_percentage,
\* created_at, is_buy), as add_trigger makes it
PTPTrigger(t, price, pct, now) ==
    [key |-> generate_trigger_id(t, now), ticket |-> t, symbol |-> pos_symbol(t),
     trigger_price |-> price, close_percentage |-> pct, created_at |-> SomeTime,
     is_buy |-> pos_is_buy(t), executed |-> FALSE, executed_at |-> NoTime,
     volume_closed |-> 0, succ |-> 0, fail |-> 0]

\* asdict(trigger): the fields of the dataclass, which go to the file
to_dict(o) ==
    IF mgr = "PTP"
    THEN [trigger_id |-> o.key, ticket |-> o.ticket, symbol |-> o.symbol,
          trigger_price |-> o.trigger_price, close_percentage |-> o.close_percentage,
          created_at |-> o.created_at, is_buy |-> o.is_buy, executed |-> o.executed,
          executed_at |-> o.executed_at, volume_closed |-> o.volume_closed]
    ELSE [ticket |-> o.ticket, symbol |-> o.symbol, trigger_price |-> o.trigger_price,
          created_at |-> o.created_at, is_buy |-> o.is_buy, executed |-> o.executed,
          executed_at |-> o.executed_at]

\* ---- keys in the file ----
\* json.dump writes the key of a dict as a string: the int ticket of
\* AutoBEManager as its decimal numeral, the trigger_id as it is.
\* _load_triggers of AutoBEManager converts back with int(ticket), which
\* raises ValueError for a string that is no numeral.
str(n) == ToString(n)
IsNumeral(text) == \E t \in Tickets : str(t) = text
int(text) == CHOOSE t \in Tickets : str(t) = text
json_key(k) == IF mgr = "BE" THEN str(k[1]) ELSE k
load_key(jk) == IF mgr = "BE" THEN <<int(jk), NoStamp>> ELSE jk
\* the timestamp in a key of the file
key_stamp(jk) == IF mgr = "BE" THEN NoStamp ELSE jk[2]

\* ---- sequences as ordered mappings ----
Keys(m) == {m[i].key : i \in 1..Len(m)}
OidsOf(m) == {m[i].oid : i \in 1..Len(m)}
Lookup(m, k) == LET i == CHOOSE i \in 1..Len(m) : m[i].key = k IN m[i].oid
Remove(m, k) == LET keep(e) == e.key # k IN SelectSeq(m, keep)
\* self.triggers[k] = o: an existing key keeps its place, a new one goes last
Upsert(m, k, o) ==
    IF k \in Keys(m)
    THEN [i \in 1..Len(m) |-> IF m[i].key = k THEN [key |-> k, oid |-> o] ELSE m[i]]
    ELSE Append(m, [key |-> k, oid |-> o])

\* data = {key: trigger.to_dict() for key, trigger in self.triggers.items()}
SaveData(m, heap) ==
    [i \in 1..Len(m) |-> [key |-> json_key(m[i].key), rec |-> to_dict(heap[m[i].oid])]]

\* [t for t in self.triggers.values() if not t.executed]
ActiveTriggers(m, heap) ==
    LET act == LET keep(e) == ~heap[e.oid].executed IN SelectSeq(m, keep)
    IN [i \in 1..Len(act) |-> act[i].oid]

\* ---- the heap: an object lives while the mapping, a thread's active_triggers
\* or the dict that clear_executed_triggers is building refers to it ----
SeqSet(s) == {s[i] : i \in 1..Len(s)}
Live(m, th) ==
    OidsOf(m) \cup UNION {SeqSet(th[x].todo) : x \in Threads}
              \cup (IF cpc = "clear" THEN OidsOf(call.m) ELSE {})
Collect(heap, m, th) == [o \in Oids |-> IF o \in Live(m, th) THEN heap[o] ELSE Blank]
FreeOids == (1..bound.objs) \ Live(triggers, thr)

\* datetime.now() in _generate_trigger_id: a reading later than every earlier
\* one (the clock advances between two calls of add_trigger), so a timestamp
\* that no key in memory or in the file carries
UsedStamps ==
    {objs[o].key[2] : o \in Oids}
    \cup {key_stamp(file[i].key) : i \in 1..Len(file)}
    \cup {key_stamp(cdata[i].key) : i \in 1..Len(cdata)}
    \cup UNION {{key_stamp(thr[x].data[i].key) : i \in 1..Len(thr[x].data)} : x \in Threads}
ClockReadable == Stamps \ UsedStamps # {}
Now == CHOOSE s \in Stamps \ UsedStamps : \A u \in Stamps \ UsedStamps : s <= u

\* A facade call in progress (call) and the value a call returns (ret): the
\* operation, the arguments of add_trigger, the key the call worked on, the
\* (ok, message) it returns as ok and msg, the count that
\* remove_all_for_position returns as n, and the exception that leaves the
\* call as exc.  The locals of a call in progress: to_remove of
\* remove_all_for_position as keys, the dict that clear_executed_triggers
\* has built as m.
NoCall ==
    [op |-> "none", ok |-> FALSE, msg |-> "", ticket |-> 0, price |-> 0, pct |-> 0,
     key |-> NoKey, n |-> 0, exc |-> "", keys |-> <<>>, m |-> <<>>]
\* return False, msg
Rejected(op, msg) == [NoCall EXCEPT !.op = op, !.msg = msg]
\* an exception leaves the call
Raised(op, e) == [NoCall EXCEPT !.op = op, !.exc = e]
\* a call that has passed its checks
Call(op, t, price, pct, k, n) ==
    [NoCall EXCEPT !.op = op, !.ticket = t, !.price = price, !.pct = pct,
                   !.key = k, !.n = n]
\* return True, msg (or the plain return of a call that returns nothing)
Returned(c) == [c EXCEPT !.ok = TRUE, !.msg = "done"]
Min(S) == CHOOSE x \in S : \A y \in S : x <= y

\* A monitor thread that does not exist (never started, or returned from
\* _monitor_triggers).  pc: "none", "loop" (at `while self.monitoring`, the
\* sleep(check_interval) before it included), "backoff" (in sleep(5)),
\* "check" (entering _check_trigger for Head(todo)), "exec" (entering
\* _execute_trigger), "write" (inside _save_triggers, before open()).
\* todo: the rest of active_triggers, the trigger being checked first.
\* cur: current_price; data: the snapshot inside _save_triggers; rk: the key
\* remove_trigger has deleted and is saving; gone (ghost): the keys whose
\* removal this tick has written to the file, while the tick goes on.
Bounds ==
    {[objs |-> MaxObjs, threads |-> 1, io_errors |-> FALSE, count_fails |-> FALSE],
     [objs |-> 1, threads |-> MaxThreads, io_errors |-> FALSE, count_fails |-> FALSE],
     [objs |-> 1, threads |-> 1, io_errors |-> TRUE, count_fails |-> TRUE]}

\* fail (ghost) of a trigger object after an action for it has failed: the
\* failures are counted, up to one, in the runs whose bound says so
Failed(n) == IF bound.count_fails THEN 1 ELSE n

NoThreadState ==
    [pc |-> "none", todo |-> <<>>, cur |-> NoPrice, data |-> <<>>, rk |-> NoKey,
     gone |-> {}]

Init ==
    /\ bound \in Bounds
    /\ mgr \in {"BE", "PTP"}
    /\ sl_at_entry = [t \in Tickets |-> FALSE]
    /\ volume = [t \in Tickets |-> MaxVolume * volume_step]
    /\ objs = [o \in Oids |-> Blank]
    /\ triggers = <<>>
    /\ file = <<>>
    /\ monitoring = FALSE
    /\ monitor_thread = NoThread
    /\ thr = [x \in Threads |-> NoThreadState]
    /\ cpc = "idle"
    /\ call = NoCall
    /\ cdata = <<>>
    /\ ret = NoCall

\* ---- the gates ----
\* What the gates answer is the world's: each call draws its answer.
\* PositionManager.get_position_by_ticket answers None (present = FALSE: no
\* such position, or not connected) or the position, of which price_current
\* varies.  conn.get_symbol_info_tick answers None or a tick with bid <= ask.
NoTick == [bid |-> NoPrice, ask |-> NoPrice]
TickValues == {NoTick} \cup {tk \in [bid : Prices, ask : Prices] : tk.bid <= tk.ask}
\* get_current_bid / get_current_ask (utils.py)
get_current_bid(tk) == tk.bid
get_current_ask(tk) == tk.ask

\* ---- the facade: calls on the caller's thread ----
FreeThreads == {x \in 1..bound.threads : thr[x].pc = "none"}
AllKeys == IF mgr = "BE" THEN {<<t, NoStamp>> : t \in Tickets} ELSE Tickets \X Stamps

\* start_monitoring: nothing when self.monitoring, else set the flag and
\* start a new thread on _monitor_triggers
start_monitoring_body ==
    IF monitoring
    THEN UNCHANGED <<monitoring, monitor_thread, thr>>
    ELSE LET x == Min(FreeThreads)
         IN /\ monitoring' = TRUE
            /\ monitor_thread' = x
            /\ thr' = [thr EXCEPT ![x] = [NoThreadState EXCEPT !.pc = "loop"]]

\* A facade call that returns without touching the manager
ReturnOnly(r) ==
    /\ ret' = r
    /\ UNCHANGED <<bound, mgr, volume, sl_at_entry, objs, triggers, file, monitoring,
                   monitor_thread, thr, cpc, call, cdata>>

\* self.triggers = m (or the del / item assignment that makes it m), then
\* _save_triggers up to data = {...}
MutateAndSnapshot(m, heap, c) ==
    /\ triggers' = m
    /\ objs' = Collect(heap, m, thr)
    /\ cdata' = SaveData(m, heap)
    /\ cpc' = "save"
    /\ call' = c
    /\ ret' = NoCall
    /\ UNCHANGED <<bound, mgr, volume, sl_at_entry, file, monitoring, monitor_thread, thr>>

\* add_trigger from "Create trigger" to data = {...} in _save_triggers: the
\* trigger is made and put into the mapping.  (The model makes the trigger
\* when an object and, if the monitor is idle, a thread are left within its
\* bounds.)
CanAdd == FreeOids # {} /\ (monitoring \/ FreeThreads # {})
InsertTrigger(trig, c) ==
    LET o == Min(FreeOids)
    IN MutateAndSnapshot(Upsert(triggers, trig.key, o), [objs EXCEPT ![o] = trig],
                         [c EXCEPT !.key = trig.key])

\* A faulty variant of the validation: a price at the entry passes
BE_accepts_at_entry(t, price, present) ==
    /\ present
    /\ IF pos_is_buy(t) THEN ~(price < pos_price_open(t))
                        ELSE ~(price > pos_price_open(t))

\* AutoBEManager.add_trigger, the validation; present: the position gate
\* answers with the position
BE_accepts(t, price, present) ==
    /\ present
    /\ IF pos_is_buy(t) THEN ~(price <= pos_price_open(t))
                        ELSE ~(price >= pos_price_open(t))

\* A faulty variant of add_trigger: the trigger is stored before the position
\* is validated, and a rejected call leaves it in the mapping.
BE_add_trigger_stores_first(t, price, present) ==
    /\ mgr = "BE"
    /\ cpc = "idle"
    /\ CanAdd
    /\ IF BE_accepts(t, price, present)
       THEN InsertTrigger(BETrigger(t, price), Call("add", t, price, 0, NoKey, 0))
       ELSE /\ triggers' = Upsert(triggers, <<t, NoStamp>>, Min(FreeOids))
            /\ objs' = [objs EXCEPT ![Min(FreeOids)] = BETrigger(t, price)]
            /\ ret' = Rejected("add", IF present THEN "entry" ELSE "not found")
            /\ UNCHANGED <<bound, mgr, volume, sl_at_entry, file, monitoring, monitor_thread,
                           thr, cpc, call, cdata>>

BE_add_trigger(t, price, present) ==
    /\ mgr = "BE"
    /\ cpc = "idle"
    /\ IF BE_accepts(t, price, present)
       THEN /\ CanAdd
            /\ InsertTrigger(BETrigger(t, price), Call("add", t, price, 0, NoKey, 0))
       ELSE ReturnOnly(Rejected("add", IF present THEN "entry" ELSE "not found"))

\* A faulty variant of the validation: a percentage of 100 passes
PTP_accepts_all_of_it(t, price, pct, present, price_current) ==
    /\ ~(pct <= 0 \/ pct > 100)
    /\ present
    /\ IF pos_is_buy(t) THEN ~(price <= price_current)
                        ELSE ~(price >= price_current)

\* PartialTPManager.add_trigger, the validation; price_current: the current
\* price in the position the gate answers with
PTP_accepts(t, price, pct, present, price_current) ==
    /\ ~(pct <= 0 \/ pct >= 100)
    /\ present
    /\ IF pos_is_buy(t) THEN ~(price <= price_current)
                        ELSE ~(price >= price_current)

PTP_add_trigger(t, price, pct, present, price_current) ==
    /\ mgr = "PTP"
    /\ cpc = "idle"
    /\ IF PTP_accepts(t, price, pct, present, price_current)
       THEN /\ CanAdd
            /\ ClockReadable
            /\ InsertTrigger(PTPTrigger(t, price, pct, Now),
                             Call("add", t, price, pct, NoKey, 0))
       ELSE ReturnOnly(Rejected("add", IF pct <= 0 \/ pct >= 100 THEN "percentage"
                                       ELSE IF present THEN "current" ELSE "not found"))

\* A facade call goes on from its first access to the mapping to its second
Proceed(pc, c) ==
    /\ cpc' = pc
    /\ call' = c
    /\ ret' = NoCall
    /\ UNCHANGED <<bound, mgr, volume, sl_at_entry, objs, triggers, file, monitoring,
                   monitor_thread, thr, cdata>>

\* An exception leaves a facade call; m: the mapping as the call leaves it
Raise(m, r) ==
    /\ triggers' = m
    /\ objs' = Collect(objs, m, thr)
    /\ cpc' = "idle"
    /\ call' = NoCall
    /\ ret' = r
    /\ UNCHANGED <<bound, mgr, volume, sl_at_entry, file, monitoring, monitor_thread, thr,
                   cdata>>

\* remove_trigger(ticket) / remove_trigger(trigger_id) called by the client:
\* `if key not in self.triggers: return False, msg`
remove_trigger(k) ==
    /\ cpc = "idle"
    /\ IF k \notin Keys(triggers)
       THEN ReturnOnly(Rejected("remove", "not found"))
       ELSE Proceed("remove", Call("remove", 0, 0, 0, k, 0))

\* remove_trigger: `del self.triggers[key]` (KeyError when the monitor has
\* deleted the key since the test), then _save_triggers up to data = {...}
remove_trigger_del ==
    /\ cpc = "remove"
    /\ IF call.key \in Keys(triggers)
       THEN MutateAndSnapshot(Remove(triggers, call.key), objs, call)
       ELSE Raise(triggers, Raised("remove", "KeyError"))

\* The keys of m whose trigger is of ticket t, in the order of m
KeysOfTicket(m, heap, t) ==
    LET sel == LET of_t(e) == heap[e.oid].ticket = t IN SelectSeq(m, of_t)
    IN [i \in 1..Len(sel) |-> sel[i].key]

\* for key in ks: del m[key], up to the first key that m does not hold
RECURSIVE RemoveWhilePresent(_, _)
RemoveWhilePresent(m, ks) ==
    IF ks = <<>> \/ Head(ks) \notin Keys(m) THEN m
    ELSE RemoveWhilePresent(Remove(m, Head(ks)), Tail(ks))

\* PartialTPManager.remove_all_for_position: to_remove = [...]; nothing to
\* remove: return 0
remove_all_for_position(t) ==
    /\ mgr = "PTP"
    /\ cpc = "idle"
    /\ LET to_remove == KeysOfTicket(triggers, objs, t)
       IN IF to_remove = <<>>
          THEN ReturnOnly(Returned(Call("remove_all", t, 0, 0, NoKey, 0)))
          ELSE Proceed("remove_all",
                       [Call("remove_all", t, 0, 0, NoKey, Len(to_remove))
                          EXCEPT !.keys = to_remove])

\* remove_all_for_position: `for trigger_id in to_remove: del
\* self.triggers[trigger_id]` (KeyError at the first key that the monitor has
\* deleted since to_remove was made), then _save_triggers up to data = {...}
remove_all_for_position_del ==
    /\ cpc = "remove_all"
    /\ LET m == RemoveWhilePresent(triggers, call.keys)
       IN IF SeqSet(call.keys) \subseteq Keys(triggers)
          THEN MutateAndSnapshot(m, objs, [call EXCEPT !.keys = <<>>])
          ELSE Raise(m, Raised("remove_all", "KeyError"))

\* clear_executed_triggers: the dict comprehension over self.triggers.items()
clear_executed_triggers ==
    /\ cpc = "idle"
    /\ LET keep(e) == ~objs[e.oid].executed
       IN Proceed("clear", [Call("clear", 0, 0, 0, NoKey, 0)
                              EXCEPT !.m = SelectSeq(triggers, keep)])

\* clear_executed_triggers: self.triggers = {...}, then _save_triggers up to
\* data = {...}
clear_executed_triggers_assign ==
    /\ cpc = "clear"
    /\ MutateAndSnapshot(call.m, objs, [call EXCEPT !.m = <<>>])

\* A faulty variant of the caller's save: a write that fails ends the facade
\* call with the exception
caller_save_raises(written) ==
    /\ cpc = "save"
    /\ written \/ bound.io_errors
    /\ file' = IF written THEN cdata ELSE file
    /\ cdata' = <<>>
    /\ IF call.op = "add" /\ written THEN start_monitoring_body
                                     ELSE UNCHANGED <<monitoring, monitor_thread, thr>>
    /\ cpc' = "idle"
    /\ call' = NoCall
    /\ ret' = IF written THEN Returned(call) ELSE Raised(call.op, "OSError")
    /\ UNCHANGED <<bound, mgr, volume, sl_at_entry, objs, triggers>>

\* _save_triggers from open() on, in the caller's thread, and the rest of the
\* facade call: the write replaces the file's content, or fails (the
\* exception is logged) and leaves the file; add_trigger then starts the
\* monitor if it is not running; the call returns success.
caller_save(written) ==
    /\ cpc = "save"
    /\ written \/ bound.io_errors
    /\ file' = IF written THEN cdata ELSE file
    /\ cdata' = <<>>
    /\ IF call.op = "add" THEN start_monitoring_body
                          ELSE UNCHANGED <<monitoring, monitor_thread, thr>>
    /\ cpc' = "idle"
    /\ call' = NoCall
    /\ ret' = Returned(call)
    /\ UNCHANGED <<bound, mgr, volume, sl_at_entry, objs, triggers>>

\* start_monitoring called by the client
start_monitoring ==
    /\ cpc = "idle"
    /\ monitoring \/ FreeThreads # {}
    /\ start_monitoring_body
    /\ ret' = Returned(Call("start", 0, 0, 0, NoKey, 0))
    /\ UNCHANGED <<bound, mgr, volume, sl_at_entry, objs, triggers, file, cpc, call, cdata>>

\* A faulty variant of stop_monitoring: a call that finds the monitor stopped
\* forgets the thread
stop_monitoring_forgets_thread ==
    /\ cpc = "idle"
    /\ IF ~monitoring
       THEN /\ monitor_thread' = NoThread
            /\ ret' = Returned(Call("stop", 0, 0, 0, NoKey, 0))
            /\ UNCHANGED <<bound, mgr, volume, sl_at_entry, objs, triggers, file, monitoring,
                           thr, cpc, call, cdata>>
       ELSE /\ monitoring' = FALSE
            /\ cpc' = "joining"
            /\ ret' = NoCall
            /\ UNCHANGED <<bound, mgr, volume, sl_at_entry, objs, triggers, file,
                           monitor_thread, thr, call, cdata>>

\* stop_monitoring up to monitor_thread.join(timeout=2)
stop_monitoring ==
    /\ cpc = "idle"
    /\ IF ~monitoring
       THEN ReturnOnly(Returned(Call("stop", 0, 0, 0, NoKey, 0)))
       ELSE /\ monitoring' = FALSE
            /\ cpc' = "joining"
            /\ ret' = NoCall
            /\ UNCHANGED <<bound, mgr, volume, sl_at_entry, objs, triggers, file,
                           monitor_thread, thr, call, cdata>>

\* join(timeout=2) returns: the thread has ended, or 2 s have passed.  The
\* thread outlasts the 2 s where it can stay longer than that: in the 5 s
\* sleep of the disconnected back-off, or in a call of a gate.
JoinTimeoutPcs == {"backoff", "check", "exec"}
stop_monitoring_join ==
    /\ cpc = "joining"
    /\ thr[monitor_thread].pc \in {"none"} \cup JoinTimeoutPcs
    /\ cpc' = "idle"
    /\ ret' = Returned(Call("stop", 0, 0, 0, NoKey, 0))
    /\ UNCHANGED <<bound, mgr, volume, sl_at_entry, objs, triggers, file, monitoring,
                   monitor_thread, thr, call, cdata>>

\* ---- the monitor thread: _monitor_triggers ----
\* A faulty variant of the step to the next trigger: after a removal the
\* trigger that follows the removed one is passed over
Advance_skips_after_removal(ts) ==
    LET rest == IF ts.rk # NoKey /\ Len(ts.todo) > 1 THEN Tail(Tail(ts.todo))
                ELSE Tail(ts.todo)
    IN [ts EXCEPT !.todo = rest,
                  !.pc = IF rest = <<>> THEN "loop" ELSE "check",
                  !.cur = NoPrice, !.data = <<>>, !.rk = NoKey,
                  !.gone = IF rest = <<>> THEN {} ELSE @]

\* The thread goes on to the next trigger of active_triggers, or to the
\* sleep(check_interval) and the loop's condition.
Advance(ts) ==
    [ts EXCEPT !.todo = Tail(ts.todo),
               !.pc = IF Tail(ts.todo) = <<>> THEN "loop" ELSE "check",
               !.cur = NoPrice, !.data = <<>>, !.rk = NoKey,
               !.gone = IF Tail(ts.todo) = <<>> THEN {} ELSE @]

\* A faulty variant of the loop: the thread returns when the terminal is not
\* connected
monitor_loop_gives_up(x, is_connected) ==
    /\ thr[x].pc = "loop"
    /\ thr' = [thr EXCEPT ![x] =
                 IF ~monitoring \/ ~is_connected THEN NoThreadState
                 ELSE LET act == ActiveTriggers(triggers, objs)
                      IN [NoThreadState EXCEPT !.pc = IF act = <<>> THEN "loop" ELSE "check",
                                               !.todo = act]]
    /\ ret' = NoCall
    /\ UNCHANGED <<bound, mgr, volume, sl_at_entry, objs, triggers, file, monitoring,
                   monitor_thread, cpc, call, cdata>>

\* A faulty variant of the loop: the connection is looked at before the flag,
\* and a thread that finds no connection sleeps without looking at the flag
monitor_loop_sleeps_through_stop(x, is_connected) ==
    /\ thr[x].pc = "loop"
    /\ thr' = [thr EXCEPT ![x] =
                 IF ~is_connected THEN [NoThreadState EXCEPT !.pc = "backoff"]
                 ELSE IF ~monitoring THEN NoThreadState
                 ELSE LET act == ActiveTriggers(triggers, objs)
                      IN [NoThreadState EXCEPT !.pc = IF act = <<>> THEN "loop" ELSE "check",
                                               !.todo = act]]
    /\ ret' = NoCall
    /\ UNCHANGED <<bound, mgr, volume, sl_at_entry, objs, triggers, file, monitoring,
                   monitor_thread, cpc, call, cdata>>

\* while self.monitoring: / if not self.conn.is_connected(): sleep(5) /
\* active_triggers = [...]; is_connected: the connection gate's answer
monitor_loop(x, is_connected) ==
    /\ thr[x].pc = "loop"
    /\ thr' = [thr EXCEPT ![x] =
                 IF ~monitoring THEN NoThreadState
                 ELSE IF ~is_connected THEN [NoThreadState EXCEPT !.pc = "backoff"]
                 ELSE LET act == ActiveTriggers(triggers, objs)
                      IN [NoThreadState EXCEPT !.pc = IF act = <<>> THEN "loop" ELSE "check",
                                               !.todo = act]]
    /\ ret' = NoCall
    /\ UNCHANGED <<bound, mgr, volume, sl_at_entry, objs, triggers, file, monitoring,
                   monitor_thread, cpc, call, cdata>>

\* time.sleep(5) ends; continue
backoff_wake(x) ==
    /\ thr[x].pc = "backoff"
    /\ thr' = [thr EXCEPT ![x].pc = "loop"]
    /\ ret' = NoCall
    /\ UNCHANGED <<bound, mgr, volume, sl_at_entry, objs, triggers, file, monitoring,
                   monitor_thread, cpc, call, cdata>>

\* A faulty variant of the condition: the price has to pass the threshold
triggered_beyond(trig, current_price) ==
    IF trig.is_buy THEN current_price > trig.trigger_price
                   ELSE current_price < trig.trigger_price

\* A faulty variant of the condition: a trigger whose action has failed is
\* given up
triggered_unless_failed(trig, current_price) ==
    /\ trig.fail = 0
    /\ IF trig.is_buy THEN current_price >= trig.trigger_price
                      ELSE current_price <= trig.trigger_price

\* The condition of _check_trigger
triggered(trig, current_price) ==
    IF trig.is_buy THEN current_price >= trig.trigger_price
                   ELSE current_price <= trig.trigger_price

\* current_price = get_current_bid(symbol) if is_buy else get_current_ask(symbol)
exit_price(trig, tk) ==
    IF trig.is_buy THEN get_current_bid(tk) ELSE get_current_ask(tk)

\* _check_trigger(trigger); present and tk: the answers of the position gate
\* and of the market gate.  Position gone: remove_trigger(key) deletes the
\* key (if it is still there) and enters _save_triggers.  No price: return.
\* Condition met: go on to _execute_trigger.
check_trigger(x, present, tk) ==
    /\ thr[x].pc = "check"
    /\ LET o == Head(thr[x].todo)
           trig == objs[o]
           price == exit_price(trig, tk)
       IN IF ~present
          THEN IF trig.key \notin Keys(triggers)
               THEN /\ thr' = [thr EXCEPT ![x] = Advance(thr[x])]
                    /\ objs' = Collect(objs, triggers, thr')
                    /\ UNCHANGED triggers
               ELSE /\ triggers' = Remove(triggers, trig.key)
                    /\ thr' = [thr EXCEPT ![x].pc = "write",
                                          ![x].data = SaveData(triggers', objs),
                                          ![x].rk = trig.key]
                    /\ objs' = Collect(objs, triggers', thr')
          ELSE /\ thr' = [thr EXCEPT ![x] =
                            IF price = NoPrice THEN Advance(thr[x])
                            ELSE IF triggered(trig, price)
                                 THEN [thr[x] EXCEPT !.pc = "exec", !.cur = price]
                                 ELSE Advance(thr[x])]
               /\ objs' = Collect(objs, triggers, thr')
               /\ UNCHANGED triggers
    /\ ret' = NoCall
    /\ UNCHANGED <<bound, mgr, volume, sl_at_entry, file, monitoring, monitor_thread, cpc,
                   call, cdata>>

\* PositionModifier.set_sl_to_entry cannot succeed when the stop is already at
\* the entry ("SL already at or beyond entry"); otherwise whether an action
\* succeeds is the broker's answer.
action_possible(t) == mgr = "BE" => ~sl_at_entry[t]

\* A faulty variant of _execute_trigger: trigger.executed = result.success,
\* assigned whatever the result is.
execute_trigger_assigns_result(x, success) ==
    /\ thr[x].pc = "exec"
    /\ LET o == Head(thr[x].todo)
           trig == objs[o]
       IN /\ success => action_possible(trig.ticket)
          /\ IF success
             THEN LET heap == [objs EXCEPT ![o].executed = TRUE,
                                           ![o].executed_at = SomeTime,
                                           ![o].volume_closed = IF mgr = "PTP" THEN 1 ELSE 0,
                                           ![o].succ = IF @ < 2 THEN @ + 1 ELSE @]
                  IN /\ objs' = heap
                     /\ thr' = [thr EXCEPT ![x].pc = "write",
                                           ![x].data = SaveData(triggers, heap)]
                     /\ sl_at_entry' = IF mgr = "BE"
                                       THEN [sl_at_entry EXCEPT ![trig.ticket] = TRUE]
                                       ELSE sl_at_entry
             ELSE /\ thr' = [thr EXCEPT ![x] = Advance(thr[x])]
                  /\ objs' = Collect([objs EXCEPT ![o].executed = FALSE, ![o].fail = Failed(@)], triggers, thr')
                  /\ UNCHANGED sl_at_entry
    /\ ret' = NoCall
    /\ UNCHANGED <<bound, mgr, volume, triggers, file, monitoring, monitor_thread, cpc, call,
                   cdata>>

\* A faulty variant of _execute_trigger: every trigger of the position is
\* marked executed, not the one that fired alone.
execute_trigger_marks_position(x, success) ==
    /\ thr[x].pc = "exec"
    /\ LET o == Head(thr[x].todo)
           trig == objs[o]
       IN /\ success => action_possible(trig.ticket)
          /\ IF success
             THEN LET heap == [p \in Oids |->
                                 IF objs[p].ticket = trig.ticket
                                 THEN [objs[p] EXCEPT !.executed = TRUE,
                                                      !.executed_at = SomeTime,
                                                      !.volume_closed = IF mgr = "PTP" THEN 1 ELSE 0,
                                                      !.succ = IF @ < 2 THEN @ + 1 ELSE @]
                                 ELSE objs[p]]
                  IN /\ objs' = heap
                     /\ thr' = [thr EXCEPT ![x].pc = "write",
                                           ![x].data = SaveData(triggers, heap)]
                     /\ sl_at_entry' = IF mgr = "BE"
                                       THEN [sl_at_entry EXCEPT ![trig.ticket] = TRUE]
                                       ELSE sl_at_entry
             ELSE /\ thr' = [thr EXCEPT ![x] = Advance(thr[x])]
                  /\ objs' = Collect([objs EXCEPT ![o].fail = Failed(@)], triggers, thr')
                  /\ UNCHANGED sl_at_entry
    /\ ret' = NoCall
    /\ UNCHANGED <<bound, mgr, volume, triggers, file, monitoring, monitor_thread, cpc, call,
                   cdata>>

\* A faulty variant of _execute_trigger: the price at which the trigger fired
\* is written over its threshold.
execute_trigger_moves_threshold(x, success) ==
    /\ thr[x].pc = "exec"
    /\ LET o == Head(thr[x].todo)
           trig == objs[o]
       IN /\ success => action_possible(trig.ticket)
          /\ IF success
             THEN LET heap == [objs EXCEPT ![o].executed = TRUE,
                                           ![o].executed_at = SomeTime,
                                           ![o].trigger_price = thr[x].cur,
                                           ![o].volume_closed = IF mgr = "PTP" THEN 1 ELSE 0,
                                           ![o].succ = IF @ < 2 THEN @ + 1 ELSE @]
                  IN /\ objs' = heap
                     /\ thr' = [thr EXCEPT ![x].pc = "write",
                                           ![x].data = SaveData(triggers, heap)]
                     /\ sl_at_entry' = IF mgr = "BE"
                                       THEN [sl_at_entry EXCEPT ![trig.ticket] = TRUE]
                                       ELSE sl_at_entry
             ELSE /\ thr' = [thr EXCEPT ![x] = Advance(thr[x])]
                  /\ objs' = Collect([objs EXCEPT ![o].fail = Failed(@)], triggers, thr')
                  /\ UNCHANGED sl_at_entry
    /\ ret' = NoCall
    /\ UNCHANGED <<bound, mgr, volume, triggers, file, monitoring, monitor_thread, cpc, call,
                   cdata>>

\* A faulty variant of _execute_trigger: executed_at is the time of the
\* attempt, set whatever the result is.
execute_trigger_stamps_attempt(x, success) ==
    /\ thr[x].pc = "exec"
    /\ LET o == Head(thr[x].todo)
           trig == objs[o]
       IN /\ success => action_possible(trig.ticket)
          /\ IF success
             THEN LET heap == [objs EXCEPT ![o].executed = TRUE,
                                           ![o].executed_at = SomeTime,
                                           ![o].volume_closed = IF mgr = "PTP" THEN 1 ELSE 0,
                                           ![o].succ = IF @ < 2 THEN @ + 1 ELSE @]
                  IN /\ objs' = heap
                     /\ thr' = [thr EXCEPT ![x].pc = "write",
                                           ![x].data = SaveData(triggers, heap)]
                     /\ sl_at_entry' = IF mgr = "BE"
                                       THEN [sl_at_entry EXCEPT ![trig.ticket] = TRUE]
                                       ELSE sl_at_entry
             ELSE /\ thr' = [thr EXCEPT ![x] = Advance(thr[x])]
                  /\ objs' = Collect([objs EXCEPT ![o].executed_at = SomeTime,
                                                  ![o].fail = Failed(@)], triggers, thr')
                  /\ UNCHANGED sl_at_entry
    /\ ret' = NoCall
    /\ UNCHANGED <<bound, mgr, volume, triggers, file, monitoring, monitor_thread, cpc, call,
                   cdata>>

\* _execute_trigger(trigger, position); success: the action gate's
\* result.success
execute_trigger(x, success) ==
    /\ thr[x].pc = "exec"
    /\ LET o == Head(thr[x].todo)
           trig == objs[o]
       IN /\ success => action_possible(trig.ticket)
          /\ IF success
             THEN LET heap == [objs EXCEPT ![o].executed = TRUE,
                                           ![o].executed_at = SomeTime,
                                           ![o].volume_closed = IF mgr = "PTP" THEN 1 ELSE 0,
                                           ![o].succ = IF @ < 2 THEN @ + 1 ELSE @]
                  IN /\ objs' = heap
                     /\ thr' = [thr EXCEPT ![x].pc = "write",
                                           ![x].data = SaveData(triggers, heap)]
                     /\ sl_at_entry' = IF mgr = "BE"
                                       THEN [sl_at_entry EXCEPT ![trig.ticket] = TRUE]
                                       ELSE sl_at_entry
             ELSE /\ thr' = [thr EXCEPT ![x] = Advance(thr[x])]
                  /\ objs' = Collect([objs EXCEPT ![o].fail = Failed(@)], triggers, thr')
                  /\ UNCHANGED sl_at_entry
    /\ ret' = NoCall
    /\ UNCHANGED <<bound, mgr, volume, triggers, file, monitoring, monitor_thread, cpc, call,
                   cdata>>

\* A faulty variant of the monitor's save: the monitor stops itself when the
\* store holds no active trigger any more
monitor_save_stops_when_idle(x, written) ==
    /\ thr[x].pc = "write"
    /\ written \/ bound.io_errors
    /\ file' = IF written THEN thr[x].data ELSE file
    /\ thr' = [thr EXCEPT ![x] =
                 Advance([thr[x] EXCEPT !.gone =
                     IF written /\ thr[x].rk # NoKey THEN @ \cup {thr[x].rk} ELSE @])]
    /\ objs' = Collect(objs, triggers, thr')
    /\ monitoring' = IF ActiveTriggers(triggers, objs) = <<>> THEN FALSE ELSE monitoring
    /\ ret' = NoCall
    /\ UNCHANGED <<bound, mgr, volume, sl_at_entry, triggers, monitor_thread, cpc,
                   call, cdata>>

\* _save_triggers from open() on, in the monitor thread
monitor_save(x, written) ==
    /\ thr[x].pc = "write"
    /\ written \/ bound.io_errors
    /\ file' = IF written THEN thr[x].data ELSE file
    /\ thr' = [thr EXCEPT ![x] =
                 Advance([thr[x] EXCEPT !.gone =
                     IF written /\ thr[x].rk # NoKey THEN @ \cup {thr[x].rk} ELSE @])]
    /\ objs' = Collect(objs, triggers, thr')
    /\ ret' = NoCall
    /\ UNCHANGED <<bound, mgr, volume, sl_at_entry, triggers, monitoring, monitor_thread, cpc,
                   call, cdata>>

\* ---- a gate raises ----
\* What a monitor thread logs when it catches an exception
Logged(op, k) == [NoCall EXCEPT !.op = op, !.key = k, !.exc = "Exception"]

\* _monitor_triggers: conn.is_connected() raises; `except Exception` of the
\* loop logs, sleeps 1 s and goes back to `while self.monitoring`
monitor_loop_raises(x) ==
    /\ thr[x].pc = "loop"
    /\ monitoring
    /\ ret' = Logged("loop", NoKey)
    /\ UNCHANGED <<bound, mgr, volume, sl_at_entry, objs, triggers, file, monitoring,
                   monitor_thread, thr, cpc, call, cdata>>

\* A faulty variant of _check_trigger without its try: the exception reaches
\* the handler of the loop, and the rest of the tick is dropped
check_trigger_raises_to_loop(x) ==
    /\ thr[x].pc = "check"
    /\ thr' = [thr EXCEPT ![x] = [NoThreadState EXCEPT !.pc = "loop"]]
    /\ objs' = Collect(objs, triggers, thr')
    /\ ret' = Logged("check", objs[Head(thr[x].todo)].key)
    /\ UNCHANGED <<bound, mgr, volume, sl_at_entry, triggers, file, monitoring,
                   monitor_thread, cpc, call, cdata>>

\* _check_trigger: the position gate or the market gate raises; `except
\* Exception` of _check_trigger logs and the function returns
check_trigger_raises(x) ==
    /\ thr[x].pc = "check"
    /\ thr' = [thr EXCEPT ![x] = Advance(thr[x])]
    /\ objs' = Collect(objs, triggers, thr')
    /\ ret' = Logged("check", objs[Head(thr[x].todo)].key)
    /\ UNCHANGED <<bound, mgr, volume, sl_at_entry, triggers, file, monitoring,
                   monitor_thread, cpc, call, cdata>>

\* _execute_trigger: the action gate raises; `except Exception` of
\* _execute_trigger logs and the function returns
execute_trigger_raises(x) ==
    /\ thr[x].pc = "exec"
    /\ thr' = [thr EXCEPT ![x] = Advance(thr[x])]
    /\ objs' = Collect([objs EXCEPT ![Head(thr[x].todo)].fail = Failed(@)], triggers, thr')
    /\ ret' = Logged("exec", objs[Head(thr[x].todo)].key)
    /\ UNCHANGED <<bound, mgr, volume, sl_at_entry, triggers, file, monitoring,
                   monitor_thread, cpc, call, cdata>>

Next ==
    \/ \E t \in Tickets, price \in Prices, present \in BOOLEAN :
          BE_add_trigger(t, price, present)
    \/ \E t \in Tickets, price \in Prices, pct \in Percentages, present \in BOOLEAN,
          price_current \in CurrentPrices :
          PTP_add_trigger(t, price, pct, present, price_current)
    \/ \E k \in AllKeys : remove_trigger(k)
    \/ remove_trigger_del
    \/ \E t \in Tickets : remove_all_for_position(t)
    \/ remove_all_for_position_del
    \/ clear_executed_triggers
    \/ clear_executed_triggers_assign
    \/ \E written \in BOOLEAN : caller_save(written)
    \/ start_monitoring
    \/ stop_monitoring
    \/ stop_monitoring_join
    \/ \E x \in Threads, is_connected \in BOOLEAN : monitor_loop(x, is_connected)
    \/ \E x \in Threads : backoff_wake(x)
    \/ \E x \in Threads, present \in BOOLEAN, tk \in TickValues :
          check_trigger(x, present, tk)
    \/ \E x \in Threads, success \in BOOLEAN : execute_trigger(x, success)
    \/ \E x \in Threads, written \in BOOLEAN : monitor_save(x, written)
    \/ \E x \in Threads : monitor_loop_raises(x)
    \/ \E x \in Threads : check_trigger_raises(x)
    \/ \E x \in Threads : execute_trigger_raises(x)

Spec == Init /\ [][Next]_vars

\* ---- the file across processes: _load_triggers ----
\* The fields of the dataclass (BETrigger / PTPTrigger) and those without a
\* default value
OptionalFields ==
    IF mgr = "PTP" THEN {"executed", "executed_at", "volume_closed"}
                   ELSE {"executed", "executed_at"}
RequiredFields ==
    IF mgr = "PTP" THEN {"trigger_id", "ticket", "symbol", "trigger_price",
                         "close_percentage", "created_at", "is_buy"}
                   ELSE {"ticket", "symbol", "trigger_price", "created_at", "is_buy"}

\* from_dict = cls(**data) raises TypeError when data lacks a field without a
\* default, or holds a key that is no field of the dataclass
from_dict_raises(data) ==
    ~(RequiredFields \subseteq DOMAIN data
      /\ DOMAIN data \subseteq RequiredFields \cup OptionalFields)

\* data.get(f, d)
Get(data, f, d) == IF f \in DOMAIN data THEN data[f] ELSE d

\* A faulty variant of from_dict: the trigger is stamped anew when it is loaded
from_dict_stamps_anew(data) ==
    [key |-> IF mgr = "PTP" THEN data.trigger_id ELSE <<data.ticket, NoStamp>>,
     ticket |-> data.ticket, symbol |-> data.symbol,
     trigger_price |-> data.trigger_price,
     close_percentage |-> IF mgr = "PTP" THEN data.close_percentage ELSE 0,
     created_at |-> "reloaded", is_buy |-> data.is_buy,
     executed |-> Get(data, "executed", FALSE),
     executed_at |-> Get(data, "executed_at", NoTime),
     volume_closed |-> Get(data, "volume_closed", 0),
     succ |-> 0, fail |-> 0]

\* from_dict = cls(**data), where it does not raise
from_dict(data) ==
    [key |-> IF mgr = "PTP" THEN data.trigger_id ELSE <<data.ticket, NoStamp>>,
     ticket |-> data.ticket, symbol |-> data.symbol,
     trigger_price |-> data.trigger_price,
     close_percentage |-> IF mgr = "PTP" THEN data.close_percentage ELSE 0,
     created_at |-> data.created_at, is_buy |-> data.is_buy,
     executed |-> Get(data, "executed", FALSE),
     executed_at |-> Get(data, "executed_at", NoTime),
     volume_closed |-> Get(data, "volume_closed", 0),
     succ |-> 0, fail |-> 0]

\* _load_triggers, the dict comprehension over data.items(): one int(ticket)
\* or one from_dict that raises ends the comprehension, and the except clause
\* of _load_triggers logs the error; self.triggers stays {}
load_raises(data) ==
    \E i \in 1..Len(data) :
       \/ mgr = "BE" /\ ~IsNumeral(data[i].key)
       \/ from_dict_raises(data[i].rec)
loaded_triggers(data) ==
    IF load_raises(data) THEN <<>>
    ELSE [i \in 1..Len(data) |-> [key |-> load_key(data[i].key), oid |-> i]]
loaded_objs(data) ==
    [o \in Oids |-> IF ~load_raises(data) /\ o <= Len(data) THEN from_dict(data[o].rec)
                    ELSE Blank]
\* A faulty variant of the start after a load: any loaded trigger starts the
\* monitor, an executed one too
load_starts_monitor_for_any(data) == loaded_triggers(data) # <<>>

\* if active_count > 0: self.start_monitoring()
load_starts_monitor(data) ==
    ActiveTriggers(loaded_triggers(data), loaded_objs(data)) # <<>>
\* what the log says of the load
load_result(data) ==
    IF load_raises(data) THEN Rejected("load", "Error loading triggers")
    ELSE Returned(Call("load", 0, 0, 0, NoKey, Len(data)))

\* succ (ghost) is a fact of the broker's side, which outlives the process:
\* the object loaded under a key takes the count of the trigger that the
\* process before had under that key
SuccOf(k, old) ==
    LET n == {old[o].succ : o \in {q \in Oids : old[q].key = k}}
    IN IF k = NoKey \/ n = {} THEN 0 ELSE CHOOSE c \in n : \A d \in n : d <= c
Outlived(heap, old) == [o \in Oids |-> [heap[o] EXCEPT !.succ = SuccOf(heap[o].key, old)]]

\* The process ends, at any point, and a new process constructs the manager:
\* __init__ with _load_triggers.  torn: the process ends inside a rewrite of
\* the file, after open(file, "w") has emptied it and before json.dump is
\* through: the file is empty or cut short, and json.load will raise.
restart(torn) ==
    /\ torn => cpc = "save" \/ \E x \in Threads : thr[x].pc = "write"
    /\ file' = IF torn THEN <<>> ELSE file
    /\ triggers' = loaded_triggers(file')
    /\ objs' = Outlived(loaded_objs(file'), objs)
    /\ monitoring' = load_starts_monitor(file')
    /\ monitor_thread' = IF load_starts_monitor(file') THEN 1 ELSE NoThread
    /\ thr' = [x \in Threads |->
                 IF x = 1 /\ load_starts_monitor(file')
                 THEN [NoThreadState EXCEPT !.pc = "loop"] ELSE NoThreadState]
    /\ cpc' = "idle"
    /\ call' = NoCall
    /\ cdata' = <<>>
    /\ ret' = IF torn THEN Rejected("load", "Error loading triggers")
              ELSE load_result(file')
    /\ UNCHANGED <<bound, mgr, volume, sl_at_entry>>

\* The files that a first process can find: up to MaxObjs records under
\* different keys, each a record as _save_triggers writes it (of an active or
\* of an executed trigger), or such a record without an optional field,
\* without a required field, or with a field that the dataclass does not have.
Without(data, f) == [g \in DOMAIN data \ {f} |-> data[g]]
WithNote(data) == [g \in DOMAIN data \cup {"note"} |-> IF g = "note" THEN "x" ELSE data[g]]
FilePrice(t) == IF pos_is_buy(t) THEN MaxPrice ELSE 1
Executed(o) ==
    [o EXCEPT !.executed = TRUE, !.executed_at = SomeTime,
              !.volume_closed = IF mgr = "PTP" THEN 1 ELSE 0]
SavedTriggers ==
    LET made == IF mgr = "PTP"
                THEN {PTPTrigger(t, FilePrice(t), 50, now) : t \in Tickets, now \in Stamps}
                ELSE {BETrigger(t, FilePrice(t)) : t \in Tickets}
    IN made \cup {Executed(o) : o \in made}
FileEntries ==
    UNION {LET e(data) == [key |-> json_key(o.key), rec |-> data]
           IN {e(to_dict(o)), e(Without(to_dict(o), "executed_at")),
               e(Without(to_dict(o), "symbol")), e(WithNote(to_dict(o)))}
           : o \in SavedTriggers}
Files ==
    {<<>>} \cup {<<e>> : e \in FileEntries}
           \cup {f \in {<<e1, e2>> : e1 \in FileEntries, e2 \in FileEntries} :
                   f[1].key # f[2].key}

\* The state after the construction of the manager by the first process
InitStore ==
    /\ bound = [objs |-> MaxObjs, threads |-> 1, io_errors |-> FALSE, count_fails |-> FALSE]
    /\ mgr \in {"BE", "PTP"}
    /\ sl_at_entry = [t \in Tickets |-> FALSE]
    /\ volume = [t \in Tickets |-> MaxVolume * volume_step]
    /\ file \in Files
    /\ triggers = loaded_triggers(file)
    /\ objs = loaded_objs(file)
    /\ monitoring = load_starts_monitor(file)
    /\ monitor_thread = IF load_starts_monitor(file) THEN 1 ELSE NoThread
    /\ thr = [x \in Threads |->
                IF x = 1 /\ load_starts_monitor(file)
                THEN [NoThreadState EXCEPT !.pc = "loop"] ELSE NoThreadState]
    /\ cpc = "idle"
    /\ call = NoCall
    /\ cdata = <<>>
    /\ ret = NoCall

\* The store and its file over the lives of several processes: the facade
\* calls that change the store, and the end of the process at any point.
\* (The monitor thread that add_trigger or _load_triggers starts is not
\* scheduled in these runs.)
NextStore ==
    \/ \E t \in Tickets, price \in Prices, present \in BOOLEAN :
          BE_add_trigger(t, price, present)
    \/ \E t \in Tickets, price \in Prices, pct \in Percentages, present \in BOOLEAN,
          price_current \in CurrentPrices :
          PTP_add_trigger(t, price, pct, present, price_current)
    \/ \E k \in AllKeys : remove_trigger(k)
    \/ remove_trigger_del
    \/ \E t \in Tickets : remove_all_for_position(t)
    \/ remove_all_for_position_del
    \/ clear_executed_triggers
    \/ clear_executed_triggers_assign
    \/ \E written \in BOOLEAN : caller_save(written)
    \/ \E torn \in BOOLEAN : restart(torn)

SpecStore == InitStore /\ [][NextStore]_vars

\* ---- the monitor across processes ----
\* The first process has constructed the manager from a file, as in
\* InitStore, on a disk where a write can fail; the monitor thread that
\* _load_triggers started works, and the process ends and starts again at any
\* point.  No facade call is made: a key names one trigger for ever.
InitRestart ==
    /\ bound = [objs |-> MaxObjs, threads |-> 1, io_errors |-> TRUE, count_fails |-> TRUE]
    /\ mgr \in {"BE", "PTP"}
    /\ sl_at_entry = [t \in Tickets |-> FALSE]
    /\ volume = [t \in Tickets |-> MaxVolume * volume_step]
    /\ file \in Files
    /\ triggers = loaded_triggers(file)
    /\ objs = loaded_objs(file)
    /\ monitoring = load_starts_monitor(file)
    /\ monitor_thread = IF load_starts_monitor(file) THEN 1 ELSE NoThread
    /\ thr = [x \in Threads |->
                IF x = 1 /\ load_starts_monitor(file)
                THEN [NoThreadState EXCEPT !.pc = "loop"] ELSE NoThreadState]
    /\ cpc = "idle"
    /\ call = NoCall
    /\ cdata = <<>>
    /\ ret = NoCall

NextRestart ==
    \/ \E x \in Threads, is_connected \in BOOLEAN : monitor_loop(x, is_connected)
    \/ \E x \in Threads : backoff_wake(x)
    \/ \E x \in Threads, present \in BOOLEAN, tk \in TickValues :
          check_trigger(x, present, tk)
    \/ \E x \in Threads, success \in BOOLEAN : execute_trigger(x, success)
    \/ \E x \in Threads, written \in BOOLEAN : monitor_save(x, written)
    \/ \E x \in Threads : monitor_loop_raises(x)
    \/ \E x \in Threads : check_trigger_raises(x)
    \/ \E x \in Threads : execute_trigger_raises(x)
    \/ \E torn \in BOOLEAN : restart(torn)

SpecRestart == InitRestart /\ [][NextRestart]_vars

\* ---- the clock of _generate_trigger_id ----
\* datetime.now().strftime("%Y%m%d%H%M%S%f") as the clock gives it: a reading
\* not before any that a known key carries, the same as the latest when the
\* clock has not advanced since
ClockReadings ==
    {s \in Stamps : \A u \in UsedStamps : s >= u}

\* PartialTPManager.add_trigger with the clock's reading now:
\* trigger_id = f"{ticket}_{timestamp}"; self.triggers[trigger_id] = trigger
PTP_add_trigger_at(t, price, pct, present, price_current, now) ==
    /\ mgr = "PTP"
    /\ cpc = "idle"
    /\ IF PTP_accepts(t, price, pct, present, price_current)
       THEN /\ CanAdd
            /\ now \in ClockReadings
            /\ InsertTrigger(PTPTrigger(t, price, pct, now),
                             Call("add", t, price, pct, NoKey, 0))
       ELSE ReturnOnly(Rejected("add", IF pct <= 0 \/ pct >= 100 THEN "percentage"
                                       ELSE IF present THEN "current" ELSE "not found"))

\* A PartialTPManager without a monitor, and a client that adds and removes
\* triggers at any reading of the clock
InitClock ==
    /\ Init
    /\ mgr = "PTP"
    /\ bound.objs = MaxObjs

NextClock ==
    \/ \E t \in Tickets, price \in Prices, pct \in Percentages, present \in BOOLEAN,
          price_current \in CurrentPrices, now \in Stamps :
          PTP_add_trigger_at(t, price, pct, present, price_current, now)
    \/ \E k \in AllKeys : remove_trigger(k)
    \/ remove_trigger_del
    \/ \E written \in BOOLEAN : caller_save(written)

SpecClock == InitClock /\ [][NextClock]_vars

\* ---- the monitor and stop_monitoring ----
\* A step of monitor thread x, whatever the gates answer
ThreadStep(x) ==
    \/ \E is_connected \in BOOLEAN : monitor_loop(x, is_connected)
    \/ backoff_wake(x)
    \/ \E present \in BOOLEAN, tk \in TickValues : check_trigger(x, present, tk)
    \/ \E success \in BOOLEAN : execute_trigger(x, success)
    \/ \E written \in BOOLEAN : monitor_save(x, written)
    \/ monitor_loop_raises(x)
    \/ check_trigger_raises(x)
    \/ execute_trigger_raises(x)

NextStop ==
    \/ \E x \in Threads : ThreadStep(x)
    \/ start_monitoring
    \/ stop_monitoring
    \/ stop_monitoring_join

\* The loaded manager (InitRestart), its monitor thread, and a client that
\* starts and stops the monitor.  Every gate call returns, every sleep ends
\* and the scheduler runs the thread: weak fairness of the thread's steps.
SpecStop ==
    /\ InitRestart
    /\ [][NextStop]_vars
    /\ \A x \in Threads : WF_vars(ThreadStep(x))

\* ---- the monitor while the world is favourable ----
\* The exit-side price of the trigger's symbol is at or beyond its threshold
PriceHolds(trig, tk) ==
    /\ exit_price(trig, tk) # NoPrice
    /\ IF trig.is_buy THEN exit_price(trig, tk) >= trig.trigger_price
                      ELSE exit_price(trig, tk) <= trig.trigger_price

\* A step of monitor thread x while the terminal is connected, the positions
\* exist, the prices hold and no gate raises; the action gate answers as it
\* likes
MonitorStep(x) ==
    \/ monitor_loop(x, TRUE)
    \/ \E tk \in TickValues :
          /\ thr[x].pc = "check"
          /\ PriceHolds(objs[Head(thr[x].todo)], tk)
          /\ check_trigger(x, TRUE, tk)
    \/ \E success \in BOOLEAN : execute_trigger(x, success)
    \/ \E written \in BOOLEAN : monitor_save(x, written)

NextLive == \E x \in Threads : MonitorStep(x)

\* The manager as a process finds it loaded (InitRestart), nobody calls the
\* facade.  The monitor is a daemon thread of its own that the scheduler
\* runs again and again (weak fairness of its steps); that the action gate
\* does not fail for ever is strong fairness of the successful action.
SpecLive ==
    /\ InitRestart
    /\ [][NextLive]_vars
    /\ \A x \in Threads : WF_vars(MonitorStep(x)) /\ SF_vars(execute_trigger(x, TRUE))

\* ---- the action gate of PartialTPManager: close_position_custom ----
\* round(n / d) of Python: the nearest whole number, a tie goes to the even one
round(n, d) ==
    LET q == n \div d
        r == n % d
    IN IF 2 * r < d THEN q
       ELSE IF 2 * r > d THEN q + 1
       ELSE IF q % 2 = 0 THEN q ELSE q + 1
\* max(a, b) and min(a, b) of Python
max(a, b) == IF a >= b THEN a ELSE b
min(a, b) == IF a <= b THEN a ELSE b

\* A faulty variant of normalize_lot: the lot is cut down to the step
normalize_lot_truncates(lot, known) ==
    IF ~known THEN lot
    ELSE LET normalized == (lot \div volume_step) * volume_step
         IN max(volume_min, min(normalized, volume_max))

\* normalize_lot(symbol, lot); known: get_symbol_info answers with the symbol
\* (None: the lot is returned as it is).  The last rounding, to the decimal
\* places of the step, changes no multiple of the step.
normalize_lot(lot, known) ==
    IF ~known THEN lot
    ELSE LET normalized == round(lot, volume_step) * volume_step
         IN max(volume_min, min(normalized, volume_max))

\* close_position(ticket, volume): the volume of the request that goes to
\* the broker
close_position(t, vol, known) == normalize_lot(min(vol, volume[t]), known)

\* _execute_trigger of PartialTPManager calls close_position_custom(ticket,
\* close_percentage).  known1, known2: the answers of get_symbol_info to the
\* two calls of normalize_lot; success: the broker's answer to the request,
\* which it gives to no volume off the step or above the position's.  A
\* closed position (volume 0) is not found.
close_position_custom(t, percentage, known1, known2, success) ==
    /\ IF volume[t] = 0
       THEN /\ ret' = [Rejected("close", "not found") EXCEPT !.ticket = t, !.pct = percentage]
            /\ UNCHANGED volume
       ELSE LET custom_volume == normalize_lot((volume[t] * percentage) \div 100, known1)
                request == close_position(t, custom_volume, known2)
            IN /\ success => request % volume_step = 0 /\ request <= volume[t]
               /\ volume' = IF success THEN [volume EXCEPT ![t] = @ - request] ELSE volume
               /\ ret' = [Call("close", t, 0, percentage, NoKey, request)
                            EXCEPT !.ok = success,
                                   !.msg = IF known1 /\ known2 THEN ""
                                           ELSE "Cannot normalize lot"]
    /\ UNCHANGED <<bound, mgr, sl_at_entry, objs, triggers, file, monitoring,
                   monitor_thread, thr, cpc, call, cdata>>

\* The positions of the account at any volume, and the partial closes that
\* the triggers of a PartialTPManager ask for
InitVolume ==
    /\ bound = [objs |-> 1, threads |-> 1, io_errors |-> FALSE, count_fails |-> FALSE]
    /\ mgr = "PTP"
    /\ sl_at_entry = [t \in Tickets |-> FALSE]
    /\ volume \in [Tickets -> {k * volume_step : k \in 0..MaxVolume}]
    /\ objs = [o \in Oids |-> Blank]
    /\ triggers = <<>>
    /\ file = <<>>
    /\ monitoring = FALSE
    /\ monitor_thread = NoThread
    /\ thr = [x \in Threads |-> NoThreadState]
    /\ cpc = "idle"
    /\ call = NoCall
    /\ cdata = <<>>
    /\ ret = NoCall

NextVolume ==
    \E t \in Tickets, percentage \in VolumePercentages, known1 \in BOOLEAN,
       known2 \in BOOLEAN, success \in BOOLEAN :
       close_position_custom(t, percentage, known1, known2, success)

SpecVolume == InitVolume /\ [][NextVolume]_vars

\* ---- the claims ----
LiveThreads == {x \in Threads : thr[x].pc # "none"}
Record(m, heap, k) == heap[Lookup(m, k)]
FileKeys == {load_key(file[i].key) : i \in 1..Len(file)}
FileRecord(k) ==
    LET i == CHOOSE i \in 1..Len(file) : file[i].key = json_key(k) IN file[i].rec

\* C1, as stated: once the record stored under an identity is executed, no
\* later state holds an active record under that identity, unless the record
\* was removed or cleared in between.  (A step that keeps the key in the
\* mapping has neither removed nor cleared it.)
C1_StatusNeverReverts ==
    [][\A k \in Keys(triggers) \cap Keys(triggers') :
          Record(triggers, objs, k).executed => Record(triggers', objs', k).executed]_vars

\* C1, amended: the record under an identity goes from executed to active
\* only in a successful add_trigger that stores a new record under that
\* identity.
C1_StatusRevertsOnlyByAdd ==
    [][\A k \in Keys(triggers) \cap Keys(triggers') :
          Record(triggers, objs, k).executed /\ ~Record(triggers', objs', k).executed
          => /\ cpc = "idle" /\ cpc' = "save"
             /\ call'.op = "add" /\ call'.key = k
             /\ Lookup(triggers', k) # Lookup(triggers, k)]_vars

\* C1: add_trigger has put an active record under a key whose executed
\* record is still what the file holds
C1_ExecutedRecordReplaced ==
    /\ cpc = "save" /\ call.op = "add"
    /\ call.key \in Keys(triggers) \cap FileKeys
    /\ FileRecord(call.key).executed
    /\ ~Record(triggers, objs, call.key).executed

\* C2, as stated: the action gate succeeds at most once for a trigger
C2_AtMostOneSuccess == \A o \in Oids : objs[o].succ <= 1

\* C3, as stated: once stop_monitoring has returned (and until monitoring is
\* started again) no monitor thread evaluates a trigger, removes one, calls
\* the action gate or writes the file
C3_NothingAfterStop ==
    [][~monitoring /\ cpc # "joining"
       => \A x \in Threads : thr[x].pc \in {"check", "exec", "write"} => thr'[x] = thr[x]]_vars

\* C4, as stated: at most one monitor thread is in _monitor_triggers at a time
C4_OneMonitorThread == Cardinality(LiveThreads) <= 1

\* C5: a step in which add_trigger returns (False, message) leaves the
\* mapping, the trigger objects, the file and the monitor as they were
C5_RejectedAddChangesNothing ==
    [][ret'.op = "add" /\ ~ret'.ok
       => UNCHANGED <<triggers, objs, file, monitoring, monitor_thread, thr>>]_vars

\* C5: add_trigger has returned (False, message) from a manager with
\* triggers, a file and a running monitor
C5_RejectedAddReturned ==
    /\ ret.op = "add" /\ ~ret.ok
    /\ triggers # <<>> /\ file # <<>> /\ monitoring /\ LiveThreads # {}

\* The inputs of AutoBEManager.add_trigger, the position gate's answer among
\* them, and those that C6 says are accepted
BEInputs == [ticket : Tickets, price : Prices, present : BOOLEAN]
BEValidInputs ==
    {in \in BEInputs :
        /\ in.present
        /\ IF pos_is_buy(in.ticket) THEN in.price > pos_price_open(in.ticket)
                                    ELSE in.price < pos_price_open(in.ticket)}
BEInvalidInputs == BEInputs \ BEValidInputs
BE_add(in) == BE_add_trigger(in.ticket, in.price, in.present)

PTPInputs ==
    [ticket : Tickets, price : Prices, pct : Percentages, present : BOOLEAN,
     price_current : CurrentPrices]
PTPValidInputs ==
    {in \in PTPInputs :
        /\ 0 < in.pct /\ in.pct < 100
        /\ in.present
        /\ IF pos_is_buy(in.ticket) THEN in.price > in.price_current
                                    ELSE in.price < in.price_current}
PTPInvalidInputs == PTPInputs \ PTPValidInputs
PTP_add(in) == PTP_add_trigger(in.ticket, in.price, in.pct, in.present, in.price_current)

\* C7: PartialTPManager.add_trigger(ticket, price, pct) is accepted if and
\* only if 0 < pct < 100, the position exists and the price is strictly beyond
\* price_current (above it for a long position, below it for a short one).  A
\* step that stores a trigger is the call of no other input, a step that
\* returns (False, message) is the call of no such input, and a stored
\* trigger's call returns success.
C7_PTPAcceptedIffValid ==
    [][/\ mgr = "PTP" /\ cpc = "idle" /\ cpc' = "save" /\ call'.op = "add"
          => \A in \in PTPInvalidInputs : ~PTP_add(in)
       /\ mgr = "PTP" /\ ret'.op = "add" /\ ~ret'.ok
          => \A in \in PTPValidInputs : ~PTP_add(in)
       /\ mgr = "PTP" /\ cpc = "save" /\ call.op = "add" /\ cpc' # "save"
          => ret'.op = "add" /\ ret'.ok /\ ret'.pct = call.pct]_vars

\* C7: add_trigger has returned success for a percentage inside (0, 100), and
\* the store holds a long and a short partial-close trigger
C7_BothSidesAccepted ==
    /\ mgr = "PTP" /\ ret.op = "add" /\ ret.ok /\ 0 < ret.pct /\ ret.pct < 100
    /\ \E k \in Keys(triggers) : Record(triggers, objs, k).is_buy
    /\ \E k \in Keys(triggers) : ~Record(triggers, objs, k).is_buy

\* C8, as stated, in the runs in which no write of the file fails: when
\* add_trigger returns success the mapping holds an active record under the
\* new key, with the position's symbol and side and the requested price, the
\* file holds the record, and the monitor is running
C8_AddSuccessPostcondition ==
    ~bound.io_errors /\ ret.op = "add" /\ ret.ok
    => /\ ret.key \in Keys(triggers)
       /\ LET trig == Record(triggers, objs, ret.key)
          IN /\ ~trig.executed /\ trig.executed_at = NoTime
             /\ trig.ticket = ret.ticket
             /\ trig.symbol = pos_symbol(ret.ticket)
             /\ trig.is_buy = pos_is_buy(ret.ticket)
             /\ trig.trigger_price = ret.price
       /\ ret.key \in FileKeys
       /\ FileRecord(ret.key).ticket = ret.ticket
       /\ FileRecord(ret.key).trigger_price = ret.price
       /\ monitoring /\ LiveThreads # {}

\* C9, as stated: when a tick ends, a trigger whose position the gate has
\* answered absent in that tick, and whose removal the tick has written, is in
\* neither the mapping nor the file (unless add_trigger has put a new record
\* under its key)
C9_ReconciledByEndOfTick ==
    [][\A x \in Threads :
          thr[x].pc # "loop" /\ thr'[x].pc = "loop"
          => \A k \in thr[x].gone :
                k \notin Keys(triggers') => k \notin FileKeys']_vars

\* C10: in _check_trigger, with the position present and the exit-side price
\* available, a long trigger goes on to _execute_trigger if and only if
\* bid >= trigger_price, a short one if and only if ask <= trigger_price
C10_FiresIffExitPriceReached ==
    [][\A x \in Threads, tk \in TickValues :
          thr[x].pc = "check"
          => LET trig == objs[Head(thr[x].todo)]
             IN \/ (IF trig.is_buy THEN tk.bid ELSE tk.ask) = NoPrice
                \/ thr'[x].pc = "exec"
                    <=> IF trig.is_buy THEN tk.bid >= trig.trigger_price
                                       ELSE tk.ask <= trig.trigger_price
                \/ ~check_trigger(x, TRUE, tk)]_vars

\* C10: a trigger has fired at a price exactly at its threshold
C10_FiredAtThreshold ==
    \E x \in Threads :
       /\ thr[x].pc = "exec"
       /\ thr[x].cur = objs[Head(thr[x].todo)].trigger_price

\* C11: in a step in which a PartialTPManager trigger fires and its action
\* succeeds, every other record of the same ticket stays in the store under
\* its key, the same object with every field as it was (an active one stays
\* active)
C11_SiblingsUntouched ==
    [][\A x \in Threads :
          mgr = "PTP" /\ thr[x].pc = "exec" /\ thr'[x].pc = "write"
          => LET o == Head(thr[x].todo)
             IN \A k \in Keys(triggers) :
                   Lookup(triggers, k) # o /\ Record(triggers, objs, k).ticket = objs[o].ticket
                   => /\ k \in Keys(triggers')
                      /\ Lookup(triggers', k) = Lookup(triggers, k)
                      /\ Record(triggers', objs', k) = Record(triggers, objs, k)]_vars

\* C11: a trigger has fired and executed, and the store holds an active
\* trigger of the same ticket beside it
C11_SiblingStillActive ==
    /\ mgr = "PTP"
    /\ \E x \in Threads :
          /\ thr[x].pc = "write" /\ thr[x].rk = NoKey
          /\ LET o == Head(thr[x].todo)
             IN /\ objs[o].executed
                /\ objs[o].key \in Keys(triggers)
                /\ \E k \in Keys(triggers) :
                      /\ Lookup(triggers, k) # o
                      /\ Record(triggers, objs, k).ticket = objs[o].ticket
                      /\ ~Record(triggers, objs, k).executed

\* C12, as stated: when a tick of the monitor that found a position gone ends
\* with the removal of that ticket's last active trigger, the store holds no
\* record of the ticket, an executed one no more than an active one
C12_NoRecordOfClosedPosition ==
    [][\A x \in Threads :
          /\ thr[x].pc = "write" /\ thr[x].rk # NoKey /\ thr'[x].pc = "loop"
          /\ \A k \in Keys(triggers') :
                Record(triggers', objs', k).ticket = thr[x].rk[1]
                => Record(triggers', objs', k).executed
          => \A k \in Keys(triggers') :
                Record(triggers', objs', k).ticket # thr[x].rk[1]]_vars

\* C17: stop_monitoring returns normally and leaves the monitoring flag
\* cleared; a call that finds the flag cleared (the second of two calls in a
\* row, or a call on a manager never started) changes nothing in the manager
C17_StopIsIdempotent ==
    [][ret'.op = "stop"
       => /\ ret'.ok
          /\ ~monitoring'
          /\ cpc = "idle" /\ ~monitoring
             => UNCHANGED <<bound, mgr, volume, sl_at_entry, objs, triggers, file, monitoring,
                            monitor_thread, thr, cpc, call, cdata>>]_vars

\* C17: stop_monitoring has returned on a manager whose monitor had been
\* started and stopped: the state a second call starts from and ends in
C17_StoppedTwice ==
    /\ ret.op = "stop" /\ cpc = "idle"
    /\ ~monitoring /\ monitor_thread # NoThread
    /\ triggers # <<>>

\* C18, as stated: remove_trigger on an id that the store does not hold
\* returns (False, message) and changes neither the mapping nor the file; on
\* an id that the store holds it returns (True, message), having deleted that
\* record and no other and (where the write did not fail) rewritten the file
\* without it
C18_RemoveTrigger ==
    [][/\ cpc = "idle" /\ ret'.op = "remove"
          => ~ret'.ok /\ ret'.exc = "" /\ UNCHANGED <<triggers, objs, file>>
       /\ cpc = "remove" /\ cpc' # "remove"
          => /\ cpc' = "save"
             /\ triggers' = Remove(triggers, call.key)
             /\ \A k \in Keys(triggers') :
                   Record(triggers', objs', k) = Record(triggers, objs, k)
       /\ cpc = "save" /\ call.op = "remove" /\ cpc' # "save"
          => /\ ret'.op = "remove" /\ ret'.ok
             /\ call.key \notin Keys(triggers')
             /\ file' = cdata => call.key \notin FileKeys']_vars

\* The keys under which m holds a record of ticket t
TicketKeys(m, heap, t) == {k \in Keys(m) : Record(m, heap, k).ticket = t}

\* C19, as stated: remove_all_for_position(ticket) returns the number of
\* records that the store held for the ticket when it was called; when it
\* returns no record of the ticket is left, the records of the other tickets
\* are as they were, and the file has been rewritten (where the write did not
\* fail, without the ticket) if and only if that number is not zero
C19_RemoveAllForPosition ==
    [][/\ cpc = "idle" /\ ret'.op = "remove_all"
          => /\ ret'.n = 0 /\ ret'.exc = ""
             /\ TicketKeys(triggers, objs, ret'.ticket) = {}
             /\ UNCHANGED <<triggers, objs, file>>
       /\ cpc = "idle" /\ cpc' = "remove_all"
          => /\ call'.n = Cardinality(TicketKeys(triggers, objs, call'.ticket))
             /\ call'.n > 0
       /\ cpc = "remove_all" /\ cpc' # "remove_all"
          => /\ cpc' = "save"
             /\ TicketKeys(triggers', objs', call.ticket) = {}
             /\ \A k \in Keys(triggers) \ TicketKeys(triggers, objs, call.ticket) :
                   /\ k \in Keys(triggers')
                   /\ Record(triggers', objs', k) = Record(triggers, objs, k)
       /\ cpc = "save" /\ call.op = "remove_all" /\ cpc' # "save"
          => /\ ret'.op = "remove_all" /\ ret'.exc = "" /\ ret'.n = call.n
             /\ TicketKeys(triggers', objs', call.ticket) = {}
             /\ file' = cdata
                => \A i \in 1..Len(file') : file'[i].rec.ticket # call.ticket]_vars

\* get_trigger_count()
get_trigger_count(m, heap) == Len(ActiveTriggers(m, heap))

\* C20, as stated: the step in which clear_executed_triggers replaces the
\* mapping removes the executed records and nothing else: the store then
\* holds the records that were active, each unchanged, and no executed one,
\* and get_trigger_count is what it was; the call returns having written
\* (where the write did not fail) a file without executed records
C20_ClearExecuted ==
    [][/\ cpc = "clear" /\ cpc' # "clear"
          => /\ cpc' = "save"
             /\ Keys(triggers') = {k \in Keys(triggers) : ~Record(triggers, objs, k).executed}
             /\ \A k \in Keys(triggers') :
                   /\ Record(triggers', objs', k) = Record(triggers, objs, k)
                   /\ ~Record(triggers', objs', k).executed
             /\ get_trigger_count(triggers', objs') = get_trigger_count(triggers, objs)
       /\ cpc = "save" /\ call.op = "clear" /\ cpc' # "save"
          => /\ ret'.op = "clear" /\ ret'.exc = ""
             /\ file' = cdata => \A i \in 1..Len(file') : ~file'[i].rec.executed]_vars

\* The records of the store, in the order of the mapping, each with its key
StoreRecords(m, heap) ==
    [i \in 1..Len(m) |-> [key |-> m[i].key, rec |-> to_dict(heap[m[i].oid])]]
ActiveRecords(m, heap) ==
    LET act(e) == ~e.rec.executed IN SelectSeq(StoreRecords(m, heap), act)

\* C13: when a process ends with the file as _save_triggers has written it
\* from the store, the manager that the next process constructs loads
\* without error the same keys with the same records, field by field; its
\* active triggers are those of the store before
C13_RoundTrip ==
    [][/\ ret'.op = "load" /\ cpc = "idle"
       /\ file = SaveData(triggers, objs) /\ file' = file
       => /\ ret'.ok
          /\ StoreRecords(triggers', objs') = StoreRecords(triggers, objs)
          /\ ActiveRecords(triggers', objs') = ActiveRecords(triggers, objs)]_vars

\* C13: a manager has loaded two triggers, one of them active, from a file
\* that holds the records as they are in the store
C13_Reloaded ==
    /\ ret.op = "load" /\ ret.ok /\ ret.n = MaxObjs
    /\ file = SaveData(triggers, objs)
    /\ ActiveRecords(triggers, objs) # <<>>

\* C14, as stated: when the process ends at any point, a rewrite of the file
\* in progress included, the manager that the next process constructs holds
\* every key that the store held, except the key of an add_trigger that had
\* not returned yet: no acknowledged add is lost
C14_CrashConsistent ==
    [][ret'.op = "load"
       => \A k \in Keys(triggers) :
             \/ cpc = "save" /\ call.op = "add" /\ call.key = k
             \/ k \in Keys(triggers')]_vars

\* The fields of a record of the file that the dataclass has
KnownFields == RequiredFields \cup OptionalFields
Known(data) == [g \in DOMAIN data \cap KnownFields |-> data[g]]

\* C15, as stated: from a file of which some records lack a required field
\* (and none has an unknown field), the manager loads exactly the records
\* that lack none, each as the file has it
C15_MalformedDropped ==
    [][/\ ret'.op = "load" /\ file' = file
       /\ \A i \in 1..Len(file) : DOMAIN file[i].rec \subseteq KnownFields
       => /\ Keys(triggers') =
                {load_key(file[i].key) :
                    i \in {j \in 1..Len(file) : RequiredFields \subseteq DOMAIN file[j].rec}}
          /\ \A i \in 1..Len(file) :
                RequiredFields \subseteq DOMAIN file[i].rec
                => to_dict(Record(triggers', objs', load_key(file[i].key)))
                      = to_dict(from_dict(file[i].rec))]_vars

\* C16, as stated: from a file of which some records have a field that the
\* dataclass does not have (and none lacks a required field), the manager
\* loads every record, each as the trigger that its known fields make
C16_UnknownFieldsIgnored ==
    [][/\ ret'.op = "load" /\ file' = file
       /\ \A i \in 1..Len(file) : RequiredFields \subseteq DOMAIN file[i].rec
       => /\ ret'.ok
          /\ Len(triggers') = Len(file)
          /\ \A i \in 1..Len(file) :
                /\ triggers'[i].key = load_key(file[i].key)
                /\ to_dict(objs'[triggers'[i].oid]) = to_dict(from_dict(Known(file[i].rec)))]_vars

\* C21: the monitor never stops on its own.  self.monitoring goes from set to
\* clear in no step but stop_monitoring's: a removal (remove_trigger,
\* remove_all_for_position, clear_executed_triggers, the monitor's
\* reconciliation) or an execution leaves it set, the last active trigger's
\* included.
C21_OnlyStopClearsMonitoring ==
    [][monitoring /\ ~monitoring' => cpc = "idle" /\ cpc' = "joining"]_vars

\* C21: the monitor is running, its thread is in the loop, and the store holds
\* triggers of which none is active (the last one was executed)
C21_RunningWithNothingActive ==
    /\ monitoring
    /\ thr[monitor_thread].pc = "loop"
    /\ triggers # <<>>
    /\ ActiveTriggers(triggers, objs) = <<>>

\* C22: auto-start on load.  When a manager has been constructed over the
\* file, the monitor is running (flag set, thread in its loop) if the load
\* has put an active trigger into the store, and stopped (flag clear, no
\* thread) if it has not: no file or an empty one, executed triggers only, or
\* a load that failed.
C22_MonitorRunsIffActiveLoaded ==
    [][ret'.op = "load"
       => IF ActiveTriggers(triggers', objs') # <<>>
          THEN /\ monitoring'
               /\ monitor_thread' # NoThread
               /\ thr'[monitor_thread'].pc = "loop"
          ELSE /\ ~monitoring'
               /\ monitor_thread' = NoThread
               /\ \A x \in Threads : thr'[x].pc = "none"]_vars

\* C22: a load has put an executed trigger and an active one into the store,
\* and the monitor is running
C22_StartedByLoad ==
    /\ ret.op = "load"
    /\ monitoring
    /\ \E i, j \in 1..Len(triggers) :
          objs[triggers[i].oid].executed /\ ~objs[triggers[j].oid].executed

\* C23: an action failure leaves the trigger active.  A step of
\* _execute_trigger in which the action gate answers failure or raises leaves
\* the mapping, the file and every field of every record as they were
\* (executed false, executed_at None, no result of the action); every tick
\* that checks triggers takes every trigger of the store that is not
\* executed, whatever has failed before; and a trigger whose action has
\* failed goes on to _execute_trigger again whenever the position is there
\* and the price meets the condition.
C23_FailureLeavesTriggerActive ==
    [][\A x \in Threads :
          /\ thr[x].pc = "exec" /\ thr'[x].pc \notin {"exec", "write"}
             => /\ triggers' = triggers
                /\ file' = file
                /\ \A k \in Keys(triggers) :
                      to_dict(Record(triggers', objs', k)) = to_dict(Record(triggers, objs, k))
          /\ thr[x].pc = "loop" /\ thr'[x].pc = "check"
             => \A i \in 1..Len(triggers) :
                   ~objs[triggers[i].oid].executed
                   => triggers[i].oid \in SeqSet(thr'[x].todo)
          /\ thr[x].pc = "check" /\ objs[Head(thr[x].todo)].fail > 0
             => \A tk \in TickValues :
                   LET trig == objs[Head(thr[x].todo)]
                   IN check_trigger(x, TRUE, tk)
                      /\ (IF trig.is_buy THEN tk.bid # NoPrice /\ tk.bid >= trig.trigger_price
                                         ELSE tk.ask # NoPrice /\ tk.ask <= trig.trigger_price)
                      => thr'[x].pc = "exec"]_vars

\* C23: the action of a trigger has failed in an earlier attempt, the record
\* is in the store as it was made, and the action is being attempted again
C23_AttemptedAgain ==
    \E x \in Threads :
       /\ thr[x].pc = "exec"
       /\ LET o == Head(thr[x].todo)
          IN /\ objs[o].fail > 0
             /\ objs[o].key \in Keys(triggers)
             /\ Lookup(triggers, objs[o].key) = o
             /\ ~objs[o].executed
             /\ objs[o].executed_at = NoTime
             /\ objs[o].volume_closed = 0

\* C24: a persistence failure is not a fault.  A facade call (add_trigger,
\* remove_trigger, remove_all_for_position, clear_executed_triggers) whose
\* write of the file fails returns as it does after a write: no exception,
\* success, the mapping and the records left as they are with the call's
\* change in them, and after add_trigger the monitor is running.  A monitor thread whose write fails (after an execution or a
\* reconciliation) keeps the mapping and the records and goes on with its
\* tick.
C24_WriteFailureIsNoFault ==
    [][/\ cpc = "save" /\ cpc' = "idle" /\ file' # cdata
          => /\ ret'.op = call.op
             /\ ret'.ok
             /\ ret'.exc = ""
             /\ triggers' = triggers
             /\ objs' = objs
             /\ call.op = "add"
                => /\ monitoring'
                   /\ thr'[monitor_thread'].pc # "none"
       /\ \A x \in Threads :
             thr[x].pc = "write" /\ thr'[x].pc # "write" /\ file' # thr[x].data
             => /\ thr'[x].pc \in {"check", "loop"}
                /\ triggers' = triggers
                /\ \A k \in Keys(triggers) :
                      Record(triggers', objs', k) = Record(triggers, objs, k)
                /\ monitoring' = monitoring]_vars

\* C24: add_trigger has returned success after a write that failed: the new
\* trigger is in the mapping and not in the file, and the monitor is running
C24_AddedWithoutFile ==
    /\ ret.op = "add"
    /\ ret.ok
    /\ ret.key \in Keys(triggers)
    /\ ret.key \notin FileKeys
    /\ monitoring
    /\ thr[monitor_thread].pc # "none"

C27_AsInSomeSerialOrder ==
    /\ ret.exc # "KeyError"
    /\ (/\ bound.threads = 1 /\ ~bound.io_errors
        /\ cpc = "idle"
        /\ \A x \in Threads : thr[x].pc \in {"none", "loop", "backoff", "check"})
       => file = SaveData(triggers, objs)

\* ---- the read-only facade calls ----
\* AutoBEManager.get_trigger(ticket): self.triggers.get(ticket); Blank is None
get_trigger(m, heap, t) ==
    IF <<t, NoStamp>> \in Keys(m) THEN heap[Lookup(m, <<t, NoStamp>>)] ELSE Blank
\* A faulty variant of get_all_triggers: the executed triggers are listed too
get_all_triggers_lists_executed(m, heap) == [i \in 1..Len(m) |-> heap[m[i].oid]]
\* get_all_triggers(): [t for t in self.triggers.values() if not t.executed]
get_all_triggers(m, heap) ==
    LET act == ActiveTriggers(m, heap) IN [i \in 1..Len(act) |-> heap[act[i]]]
\* PartialTPManager.get_triggers_for_position(ticket)
get_triggers_for_position(m, heap, t) ==
    LET of_t(trig) == trig.ticket = t IN SelectSeq(get_all_triggers(m, heap), of_t)

\* The step removes the record under k, or puts another object under k
Dropped(k) == k \notin Keys(triggers') \/ Lookup(triggers', k) # Lookup(triggers, k)
\* The step is the delete of remove_trigger or of remove_all_for_position, or
\* the assignment of clear_executed_triggers, made by the client's call
ClientDeletes == cpc \in {"remove", "remove_all", "clear"} /\ cpc' \in {"save", "idle"}
\* An executed record is that of the executed trigger for every call that
\* reads the store, and no list of active triggers has it
ExecutedAreKeptUnlisted ==
    \A k \in Keys(triggers) :
       LET trig == Record(triggers, objs, k)
       IN trig.executed
          => /\ mgr = "BE" => get_trigger(triggers, objs, trig.ticket) = trig
             /\ trig \notin SeqSet(get_all_triggers(triggers, objs))
             /\ trig \notin SeqSet(get_triggers_for_position(triggers, objs, trig.ticket))
             /\ get_trigger_count(triggers, objs)
                  = Cardinality({j \in Keys(triggers) : ~Record(triggers, objs, j).executed})

C29_ErrorEndsOneCheckOnly ==
    [][ret'.op \in {"check", "exec"} /\ ret'.exc # ""
       => /\ \E x \in Threads :
                /\ thr[x].pc \in {"check", "exec"}
                /\ objs[Head(thr[x].todo)].key = ret'.key
                /\ thr'[x].todo = Tail(thr[x].todo)
                /\ thr'[x].pc = IF Tail(thr[x].todo) = <<>> THEN "loop" ELSE "check"
                /\ \A y \in Threads \ {x} : thr'[y] = thr[y]
          /\ triggers' = triggers
          /\ file' = file
          /\ monitoring' = monitoring]_vars

\* C29: a gate has raised in the check of one trigger, and the thread is about
\* to check the next trigger of the same tick
C29_NextTriggerAfterError ==
    /\ ret.op = "check"
    /\ ret.exc # ""
    /\ \E x \in Threads :
          /\ thr[x].pc = "check"
          /\ objs[Head(thr[x].todo)].key # ret.key

\* C30: the monitor loop exits only on an explicit stop.  A monitor thread
\* ends in no step but the test of `while self.monitoring` that finds the
\* flag clear: no answer of a gate, no None, no exception and no lost
\* connection ends it.  A failed connection check sends the thread into its
\* back-off with no trigger taken or touched, and from the back-off it goes
\* back to the test of the loop; an exception in the loop leaves the thread
\* at the test of the loop.
C30_ThreadEndsOnlyWhenStopped ==
    [][/\ \A x \in Threads :
             /\ thr[x].pc # "none" /\ thr'[x].pc = "none"
                => thr[x].pc = "loop" /\ ~monitoring
             /\ thr[x].pc # "backoff" /\ thr'[x].pc = "backoff"
                => /\ thr[x].pc = "loop"
                   /\ thr'[x].todo = <<>>
                   /\ objs' = objs /\ triggers' = triggers /\ file' = file
             /\ thr[x].pc = "backoff" /\ thr'[x] # thr[x]
                => thr'[x] = [thr[x] EXCEPT !.pc = "loop"] /\ thr[x].todo = <<>>
       /\ ret'.op = "loop" => thr' = thr /\ monitoring' = monitoring]_vars

\* C30: the monitor is running over a store with an active trigger, and its
\* thread is in the back-off after a failed connection check
C30_BackingOff ==
    /\ monitoring
    /\ thr[monitor_thread].pc = "backoff"
    /\ ActiveTriggers(triggers, objs) # <<>>

\* PositionManager.get_position_by_ticket: None (FALSE) when the terminal is
\* not connected, and when it has no position of the ticket
get_position_by_ticket(is_connected, exists) == is_connected /\ exists

\* C31, as stated: a check that finds no exit-side price, or that cannot get
\* the position because the connection has dropped since the tick began,
\* neither executes nor removes the trigger: the mapping, the file and the
\* trigger are as they were, and the thread goes on to the next trigger
C31_DataGapSkipped ==
    [][\A x \in Threads :
          thr[x].pc = "check"
          => \A tk \in TickValues :
                LET o == Head(thr[x].todo)
                    gap == \/ check_trigger(x, get_position_by_ticket(FALSE, TRUE), tk)
                           \/ /\ check_trigger(x, get_position_by_ticket(TRUE, TRUE), tk)
                              /\ exit_price(objs[o], tk) = NoPrice
                IN gap => /\ triggers' = triggers
                          /\ file' = file
                          /\ thr'[x] = Advance(thr[x])
                          /\ o \in Live(triggers', thr') => objs'[o] = objs[o]]_vars

\* C32: ticks are complete.  A tick that passes the connection check takes
\* every trigger of the store that is not executed, each once.  A thread
\* with triggers left in its tick is checking the first of them (in
\* _check_trigger, in _execute_trigger or in the save that follows), and a
\* step of the thread either goes on inside that check or ends it and
\* enters the check of the next trigger, dropping only the trigger it has
\* checked, whatever has happened to it: executed, removed, or an error.
\* No step of the caller or of another thread changes what is left.
C32_TicksAreComplete ==
    [][\A x \in Threads :
          /\ thr[x].pc = "loop" /\ thr'[x].pc = "check"
             => /\ \A i \in 1..Len(triggers) :
                      ~objs[triggers[i].oid].executed
                      => Cardinality({j \in 1..Len(thr'[x].todo) :
                                        thr'[x].todo[j] = triggers[i].oid}) = 1
                /\ Len(thr'[x].todo)
                     = Cardinality({i \in 1..Len(triggers) : ~objs[triggers[i].oid].executed})
          /\ thr[x].todo # <<>> => thr[x].pc \in {"check", "exec", "write"}
          /\ thr[x].todo # <<>> /\ thr'[x] # thr[x]
             => \/ /\ thr'[x].todo = thr[x].todo
                   /\ thr[x].pc = "check"
                   /\ thr'[x].pc \in {"exec", "write"}
                \/ /\ thr'[x].todo = thr[x].todo
                   /\ thr[x].pc = "exec"
                   /\ thr'[x].pc = "write"
                \/ /\ thr'[x].todo = Tail(thr[x].todo)
                   /\ thr'[x].pc = IF Tail(thr[x].todo) = <<>> THEN "loop" ELSE "check"]_vars

\* C32: the first trigger of a tick was removed by the reconciliation, the
\* file is written, and the thread is checking the second trigger
C32_SecondAfterRemoval ==
    \E x \in Threads :
       /\ thr[x].pc = "check"
       /\ thr[x].gone # {}
       /\ objs[Head(thr[x].todo)].key \in Keys(triggers)

C34_FileEqualsMappingAtRest ==
    /\ ~bound.io_errors
    /\ cpc = "idle"
    /\ \A x \in Threads : thr[x].pc \in {"none", "loop", "backoff"}
    => file = SaveData(triggers, objs)

\* C35: when remove_trigger(key) or remove_all_for_position(ticket) has just
\* returned success for a trigger, no monitor thread that holds the trigger
\* in its tick calls the action gate for it (leaves "exec") in the next step
C35_NoActionAfterRemoval ==
    [][\A x \in Threads :
          /\ ret.ok
          /\ thr[x].pc = "exec"
          /\ LET trig == objs[Head(thr[x].todo)]
             IN \/ ret.op = "remove" /\ ret.key = trig.key
                \/ ret.op = "remove_all" /\ ret.n > 0 /\ ret.ticket = trig.ticket
          => thr'[x] = thr[x]]_vars

\* C36: the action gate is never called (a thread never leaves "exec") for
\* a trigger whose action has succeeded before, in this process or in a
\* process before it
C36_NoActionAfterSuccess ==
    [][\A x \in Threads :
          thr[x].pc = "exec" /\ thr'[x] # thr[x] /\ ret'.op # "load"
          => objs[Head(thr[x].todo)].succ = 0]_vars

\* C37: a partial close of a position whose volume is a positive multiple of
\* the volume step and at least the minimum volume asks for less than the
\* position's volume
C37_RemainderStaysOpen ==
    [][/\ ret'.op = "close"
       /\ volume[ret'.ticket] >= volume_min
       /\ volume[ret'.ticket] % volume_step = 0
       => ret'.n < volume[ret'.ticket]]_vars

\* C38: while the monitor runs, the terminal stays connected, the position
\* exists, the exit-side price stays at or beyond the threshold and the
\* action gate does not fail for ever, a stored active trigger is executed
\* in the end
C38_ActiveBecomesExecuted ==
    \A o \in Oids :
       (monitoring /\ o \in OidsOf(triggers) /\ ~objs[o].executed) ~> objs[o].executed

\* C38: a trigger whose action has failed is executed at a later tick
C38_ExecutedAfterRetry ==
    /\ monitoring
    /\ \E o \in OidsOf(triggers) :
          objs[o].fail > 0 /\ objs[o].succ > 0 /\ objs[o].executed

\* C39: once the flag is cleared, wherever the monitor thread is in its
\* loop, the thread ends, unless start_monitoring sets the flag again before
C39_StoppedThreadEnds ==
    ~monitoring ~> (monitoring \/ \A x \in Threads : thr[x].pc = "none")

\* C39: stop_monitoring has returned after the join's timeout, and the
\* thread is still in the 5 s sleep of a tick that found no connection
C39_StoppedWhileBackingOff ==
    /\ ~monitoring
    /\ ret.op = "stop"
    /\ \E x \in Threads : thr[x].pc = "backoff"

\* C40: an add_trigger of PartialTPManager that stores a trigger stores it
\* under a trigger_id that the mapping does not hold, and the mapping has
\* one record more than before
C40_AddNeverOverwrites ==
    [][mgr = "PTP" /\ cpc = "idle" /\ cpc' = "save" /\ call'.op = "add"
       => /\ call'.key \notin Keys(triggers)
          /\ Len(triggers') = Len(triggers) + 1]_vars

====
